---- MODULE Spec2Model ----
(***************************************************************************)
(* A model of python/prophet/models.py: the inference-backend layer of     *)
(* Prophet (IStanBackend, CmdStanPyBackend, NumpyroBackend and the         *)
(* StanBackendEnum registry).                                              *)
(*                                                                         *)
(* Python strings that the code takes apart (column names) are sequences   *)
(* of one-character strings; numpy arrays are records of a shape and the   *)
(* row-major sequence of their elements.                                   *)
(***************************************************************************)
EXTENDS Integers, Sequences, FiniteSets, TLC

VARIABLES
    \* ---- the caller and the backend object ----
    cls,              \* the class the caller holds after a registry lookup
    backend,          \* class of the constructed backend ("none" before)
    model,            \* self.model
    stan_fit,         \* self.stan_fit
    newton_fallback,  \* self.newton_fallback
    run_params,       \* self.run_params (NumpyroBackend)
    pc,               \* position inside CmdStanPyBackend.fit
    args,             \* the local dict args of CmdStanPyBackend.fit
    kwargs,           \* keyword arguments of the fit or sampling call in progress or just over
    options,          \* keyword arguments of the set_options call just over
    calls,            \* engine optimize calls of the fit in progress or just over
    warnings,         \* records logged by the call in progress or just over
    outcome,          \* what the most recent call returned or raised
    \* ---- stan_to_dict_numpy ----
    column_names, data, decoded,
    \* ---- simplify_mcmc_results ----
    params, simplified,
    \* ---- sanitize_custom_inits ----
    default_inits, custom_inits, sanitized

vars == <<cls, backend, model, stan_fit, newton_fallback, run_params, pc, args,
          kwargs, options, calls, warnings, outcome, column_names, data,
          decoded, params, simplified, default_inits, custom_inits, sanitized>>

backendVars == <<cls, backend, model, stan_fit, newton_fallback, run_params,
                 pc, args, kwargs, options, calls, warnings, outcome>>
decodeVars == <<column_names, data, decoded>>
simplifyVars == <<params, simplified>>
sanitizeVars == <<default_inits, custom_inits, sanitized>>

-----------------------------------------------------------------------------
(* Python values *)

\* A value is a record of its type t and, by type, a number n (bool, int,
\* float), a string s (a sequence of characters) or an array a.
NoArray == [shape |-> <<>>, flat |-> <<>>]
PyNone == [t |-> "NoneType", n |-> 0, s |-> <<>>, a |-> NoArray]
PyBool(b) == [t |-> "bool", n |-> IF b THEN 1 ELSE 0, s |-> <<>>, a |-> NoArray]
PyInt(i) == [t |-> "int", n |-> i, s |-> <<>>, a |-> NoArray]
PyFloatOf(x) == [t |-> "float", n |-> x, s |-> <<>>, a |-> NoArray]
PyStr(chars) == [t |-> "str", n |-> 0, s |-> chars, a |-> NoArray]
PyList == [t |-> "list", n |-> 0, s |-> <<>>, a |-> NoArray]
PyArray(arr) == [t |-> "ndarray", n |-> 0, s |-> <<>>, a |-> arr]

Digits == [c \in {"0", "1", "2", "3", "4", "5", "6", "7", "8", "9"} |->
             CASE c = "0" -> 0 [] c = "1" -> 1 [] c = "2" -> 2 [] c = "3" -> 3
               [] c = "4" -> 4 [] c = "5" -> 5 [] c = "6" -> 6 [] c = "7" -> 7
               [] c = "8" -> 8 [] c = "9" -> 9]

\* str.strip() for blanks
RECURSIVE Strip(_)
Strip(chars) ==
    IF chars = <<>> THEN chars
    ELSE IF Head(chars) = " " THEN Strip(Tail(chars))
    ELSE IF chars[Len(chars)] = " " THEN Strip(SubSeq(chars, 1, Len(chars) - 1))
    ELSE chars

RECURSIVE DigitsValue(_)
DigitsValue(chars) ==
    IF chars = <<>> THEN 0
    ELSE 10 * DigitsValue(SubSeq(chars, 1, Len(chars) - 1)) + Digits[chars[Len(chars)]]

ValueReturned(v) == [raised |-> "none", value |-> v]
ValueRaised(e) == [raised |-> e, value |-> PyNone]

\* The builtin float(x). Of the strings, the model reads blanks around a run
\* of decimal digits; every other string is taken to be no number.
PyFloat(x) ==
    CASE x.t = "float" -> ValueReturned(x)
      [] x.t \in {"int", "bool"} -> ValueReturned(PyFloatOf(x.n))
      [] x.t = "str" ->
            LET body == Strip(x.s)
            IN  IF body # <<>> /\ \A i \in 1..Len(body) : body[i] \in DOMAIN Digits
                THEN ValueReturned(PyFloatOf(DigitsValue(body)))
                ELSE ValueRaised("ValueError")
      [] x.t = "ndarray" ->
            IF Len(x.a.flat) = 1 THEN ValueReturned(PyFloatOf(x.a.flat[1]))
            ELSE ValueRaised("TypeError")
      [] OTHER -> ValueRaised("TypeError")

\* dict.get(key): a dict is a function from its keys.
PyGet(d, key) == IF key \in DOMAIN d THEN d[key] ELSE PyNone

\* Whether x.shape exists.
HasShape(x) == x.t = "ndarray"

-----------------------------------------------------------------------------
(* The state before anything has been called *)

NotCalled == [raised |-> "not called", msg |-> "", output |-> <<>>]

SimplifyNotCalled == [raised |-> "not called", output |-> <<>>]

Idle == "idle"

\* self.stan_fit: None, or the engine's result object. call is the number of
\* the engine call of that fit which produced it.
NoFit == [kind |-> "None", call |-> 0, algorithm |-> "", column_names |-> <<>>,
          values |-> NoArray]

NoArgs == [algorithm |-> "", iter |-> 0, T |-> 0]

\* Keyword arguments of fit and sampling: algorithm ("" when absent), init
\* (present when has_init), inits (present when has_inits) and chains (0 when
\* absent).
NoKwargs == [algorithm |-> "", has_init |-> FALSE, init |-> <<>>,
             has_inits |-> FALSE, chains |-> 0]

\* What a call did: the operation, the exception type raised ("none" when it
\* returned), where the exception was raised, its message, and the value
\* returned (a class for a registry lookup, a mapping for fit and sampling).
NoOutcome == [op |-> "", name |-> "", raised |-> "none", origin |-> "",
              msg |-> <<>>, class |-> "none", value |-> <<>>]

InitBackendIdle ==
    /\ cls = "none" /\ backend = "none" /\ model = "none"
    /\ stan_fit = NoFit /\ newton_fallback = PyNone /\ run_params = "unset"
    /\ pc = Idle /\ args = NoArgs /\ kwargs = NoKwargs /\ options = <<>>
    /\ calls = <<>> /\ warnings = <<>> /\ outcome = NoOutcome

SanitizeNotCalled == [raised |-> "not called", value |-> <<>>]

InitSanitizeIdle ==
    default_inits = <<>> /\ custom_inits = <<>> /\ sanitized = SanitizeNotCalled

InitDecodeIdle == column_names = <<>> /\ data = "none" /\ decoded = NotCalled

InitSimplifyIdle == params = <<>> /\ simplified = SimplifyNotCalled

-----------------------------------------------------------------------------
(* Bounds of the model *)

MaxCols == 4      \* longest column-name sequence handed to the decoder
MaxRows == 2      \* most rows (draws) of a 2-D buffer handed to the decoder

-----------------------------------------------------------------------------
(* numpy arrays *)

RECURSIVE Prod(_)
Prod(shape) == IF shape = <<>> THEN 1 ELSE Head(shape) * Prod(Tail(shape))

Min(a, b) == IF a < b THEN a ELSE b

\* An array of the given shape whose elements are 1, 2, ... in row-major order.
MkArray(shape) == [shape |-> shape, flat |-> [i \in 1..Prod(shape) |-> i]]

\* s[start:end] of a Python sequence (0-based, end exclusive, clipped).
PySlice(s, start, end) ==
    LET lo == Min(start, Len(s))
        hi == Min(end, Len(s))
    IN  IF hi <= lo THEN <<>> ELSE SubSeq(s, lo + 1, hi)

\* data[start:end] of a 1-D array.
SliceAxis0(a, start, end) ==
    LET f == PySlice(a.flat, start, end)
    IN  [shape |-> <<Len(f)>>, flat |-> f]

RECURSIVE RowsSlice(_, _, _, _, _)
RowsSlice(flat, ncols, r, start, end) ==
    IF r = 0 THEN <<>>
    ELSE RowsSlice(flat, ncols, r - 1, start, end)
         \o PySlice(SubSeq(flat, (r - 1) * ncols + 1, r * ncols), start, end)

\* data[:, start:end] of a 2-D array.
SliceAxis1(a, start, end) ==
    LET nrows == a.shape[1]
        ncols == a.shape[2]
        w == Len(PySlice([i \in 1..ncols |-> i], start, end))
    IN  [shape |-> <<nrows, w>>,
         flat |-> RowsSlice(a.flat, ncols, nrows, start, end)]

-----------------------------------------------------------------------------
(* CmdStanPyBackend.stan_to_dict_numpy *)

\* Python's None where a column base name is expected (no column name is the
\* one-element sequence <<"None">>: characters are one-character strings).
None == <<"None">>

Contains(s, c) == \E i \in 1..Len(s) : s[i] = c

FirstIndex(s, c) == CHOOSE i \in 1..Len(s) : s[i] = c /\ \A j \in 1..(i - 1) : s[j] # c

\* str.split(sep) for a one-character separator.
RECURSIVE Split(_, _)
Split(s, sep) ==
    IF ~Contains(s, sep) THEN <<s>>
    ELSE LET i == FirstIndex(s, sep)
         IN  <<SubSeq(s, 1, i - 1)>> \o Split(SubSeq(s, i + 1, Len(s)), sep)

\* parsed = cname.split(".") if "." in cname else cname.split("["); parsed[0]
BaseName(cname) ==
    LET parsed == IF Contains(cname, ".") THEN Split(cname, ".") ELSE Split(cname, "[")
    IN  parsed[1]

\* An OrderedDict is the sequence of its <<key, value>> items in insertion order.
InDict(key, d) == \E i \in 1..Len(d) : d[i][1] = key

\* d[key] = value
PutDict(d, key, value) ==
    IF InDict(key, d)
    THEN [i \in 1..Len(d) |-> IF d[i][1] = key THEN <<key, value>> ELSE d[i]]
    ELSE Append(d, <<key, value>>)

\* "if prev in output: raise RuntimeError(...)"
RepeatedNameNeverDetected(prev, output) == FALSE
RepeatedColumnName(prev, output) == InDict(prev, output)

\* np.array(data[:, start:end]) if two_dims else np.array(data[start:end])
SliceColumns(a, start, end) ==
    IF Len(a.shape) > 1 THEN SliceAxis1(a, start, end) ELSE SliceAxis0(a, start, end)

\* The for loop over column_names, from its i-th name on, with the locals in st.
RECURSIVE DecodeLoop(_, _, _, _)
DecodeLoop(names, a, i, st) ==
    IF i > Len(names) THEN st
    ELSE LET curr == BaseName(names[i])
             prev == IF st.prev = None THEN curr ELSE st.prev
         IN  IF curr # prev
             THEN IF RepeatedColumnName(prev, st.output)
                  THEN [st EXCEPT !.raised = "RuntimeError"]
                  ELSE DecodeLoop(names, a, i + 1,
                         [output |-> PutDict(st.output, prev,
                                             SliceColumns(a, st.start, st.end)),
                          prev |-> curr, start |-> st.end, end |-> st.end + 1,
                          raised |-> "none"])
             ELSE DecodeLoop(names, a, i + 1,
                             [st EXCEPT !.prev = prev, !.end = st.end + 1])

RepeatedMsg == "Found repeated column name"

\* The outcome of a call: what it raised ("none" when it returned), the
\* exception's message, and the returned mapping.
DecodeRaise == [raised |-> "RuntimeError", msg |-> RepeatedMsg, output |-> <<>>]

stan_to_dict_numpy(names, a) ==
    LET st == DecodeLoop(names, a, 1,
                  [output |-> <<>>, prev |-> None, start |-> 0, end |-> 0,
                   raised |-> "none"])
    IN  IF st.raised # "none" THEN DecodeRaise
        ELSE IF RepeatedColumnName(st.prev, st.output) THEN DecodeRaise
        ELSE [raised |-> "none", msg |-> "",
              output |-> PutDict(st.output, st.prev,
                                 SliceColumns(a, st.start, st.end))]

-----------------------------------------------------------------------------
(* IStanBackend.simplify_mcmc_results *)

MaxDim == 2       \* largest size of one axis of an array handed to the simplifier

ParK == <<"k">>
ParDelta == <<"d", "e", "l", "t", "a">>
ParBeta == <<"b", "e", "t", "a">>

Returned(v) == [raised |-> "none", value |-> v]
Raised(e) == [raised |-> e, value |-> [shape |-> <<>>, flat |-> <<>>]]

\* a.reshape(shape), shape without -1
Reshape(a, shape) ==
    IF Prod(shape) = Len(a.flat)
    THEN Returned([shape |-> shape, flat |-> a.flat])
    ELSE Raised("ValueError")

\* a.reshape((-1, 1))
ReshapeColumn(a) == Returned([shape |-> <<Len(a.flat), 1>>, flat |-> a.flat])

\* a.reshape((1, -1))
ReshapeRow(a) == [shape |-> <<1, Len(a.flat)>>, flat |-> a.flat]

\* The body of the loop "for par in out" for one parameter.
SimplifyPar(par, a) ==
    LET s == a.shape
        squeezed ==
            IF Len(s) < 2 THEN Raised("IndexError")      \* s[1] of a 1-tuple
            ELSE IF s[2] = 1 THEN Reshape(a, <<s[1]>>)
            ELSE Returned(a)
    IN  IF squeezed.raised # "none" THEN squeezed
        ELSE IF par \in {ParDelta, ParBeta} /\ Len(s) < 2
             THEN ReshapeColumn(squeezed.value)
             ELSE squeezed

RECURSIVE SimplifyLoop(_, _)
SimplifyLoop(p, i) ==
    IF i > Len(p) THEN [raised |-> "none", output |-> p]
    ELSE LET r == SimplifyPar(p[i][1], p[i][2])
         IN  IF r.raised # "none" THEN [raised |-> r.raised, output |-> <<>>]
             ELSE SimplifyLoop([p EXCEPT ![i] = <<p[i][1], r.value>>], i + 1)

simplify_mcmc_results(p) == SimplifyLoop(p, 1)

\* Shapes with one to three axes, each of size 1..MaxDim.
SimplifyShapes == UNION { [1..n -> 1..MaxDim] : n \in 1..3 }

DictGet(d, key) == LET i == CHOOSE j \in 1..Len(d) : d[j][1] = key IN d[i][2]

InitSimplifyInputs ==
    /\ InitBackendIdle /\ InitDecodeIdle /\ InitSanitizeIdle
    /\ \E sk, sd, sb \in SimplifyShapes :
          params = << <<ParK, MkArray(sk)>>, <<ParDelta, MkArray(sd)>>,
                      <<ParBeta, MkArray(sb)>> >>
    /\ simplified = SimplifyNotCalled

Simplify ==
    /\ simplified = SimplifyNotCalled
    /\ simplified' = simplify_mcmc_results(params)
    /\ UNCHANGED params
    /\ UNCHANGED <<backendVars, decodeVars, sanitizeVars>>

NextSimplify == Simplify

SpecSimplify == InitSimplifyInputs /\ [][NextSimplify]_vars

\* C4: for delta and beta, simplify_mcmc_results never returns an array with
\* fewer than 2 axes, whatever the input shape (a 2-D array whose second axis
\* has size 1 included).
C4_DeltaBetaKeepTwoAxes ==
    (simplified # SimplifyNotCalled /\ simplified.raised = "none")
        => \A par \in {ParDelta, ParBeta} :
               Len(DictGet(simplified.output, par).shape) >= 2

\* Not a claim's formula: the 1-D case the second test of the loop body is
\* written for. A 1-D delta or beta would come back with shape (draws, 1).
VectorInputIsReshaped ==
    (simplified # SimplifyNotCalled
     /\ \A i \in 1..Len(params) : Len(params[i][2].shape) = 1)
        => /\ simplified.raised = "none"
           /\ \A par \in {ParDelta, ParBeta} :
                 DictGet(simplified.output, par).shape
                     = <<Len(DictGet(params, par).flat), 1>>

-----------------------------------------------------------------------------
(* IStanBackend.sanitize_custom_inits *)

MaxLen == 2       \* longest vector among the initial values

ScalarParams == <<"k", "m", "sigma_obs">>
VectorParams == <<"delta", "beta">>

\* try: sanitized[param] = float(custom_inits.get(param))
\* except Exception: sanitized[param] = default_inits[param]
SanitizeScalarUncoerced(default, custom, param) ==
    IF PyFloat(PyGet(custom, param)).raised = "none" THEN PyGet(custom, param)
    ELSE default[param]
SanitizeScalar(default, custom, param) ==
    LET f == PyFloat(PyGet(custom, param))
    IN  IF f.raised = "none" THEN f.value ELSE default[param]

\* The body of the loop over ["delta", "beta"] for one parameter.
SanitizeVector(default, custom, param) ==
    IF param \notin DOMAIN custom THEN ValueRaised("KeyError")
    ELSE IF ~HasShape(custom[param]) THEN ValueRaised("AttributeError")
    ELSE IF default[param].a.shape = custom[param].a.shape
         THEN ValueReturned(custom[param])
         ELSE ValueReturned(default[param])

SanitizeFailed(e) == [raised |-> e, value |-> <<>>]

sanitize_custom_inits(default, custom) ==
    LET k == SanitizeScalar(default, custom, ScalarParams[1])
        m == SanitizeScalar(default, custom, ScalarParams[2])
        sigma_obs == SanitizeScalar(default, custom, ScalarParams[3])
        delta == SanitizeVector(default, custom, VectorParams[1])
        beta == SanitizeVector(default, custom, VectorParams[2])
    IN  IF delta.raised # "none" THEN SanitizeFailed(delta.raised)
        ELSE IF beta.raised # "none" THEN SanitizeFailed(beta.raised)
        ELSE [raised |-> "none",
              value |-> [p \in {"k", "m", "sigma_obs", "delta", "beta"} |->
                            CASE p = "k" -> k [] p = "m" -> m
                              [] p = "sigma_obs" -> sigma_obs
                              [] p = "delta" -> delta.value
                              [] p = "beta" -> beta.value]]

\* np.zeros(shape)
Zeros(shape) == [shape |-> shape, flat |-> [i \in 1..Prod(shape) |-> 0]]

\* The caller's default initial values: floats and 1-D arrays of zeros.
DefaultInits ==
    { [p \in {"k", "m", "sigma_obs", "delta", "beta"} |->
          CASE p = "k" -> PyFloatOf(10) [] p = "m" -> PyFloatOf(11)
            [] p = "sigma_obs" -> PyFloatOf(1)
            [] p = "delta" -> PyArray(Zeros(<<nd>>))
            [] p = "beta" -> PyArray(Zeros(<<nb>>))] : nd, nb \in 0..MaxLen }

KValues ==
    { PyNone, PyBool(TRUE), PyInt(3), PyFloatOf(2), PyStr(<<"7">>),
      PyStr(<<" ", "4", "2", " ">>), PyStr(<<"a", "b", "c">>), PyStr(<<>>),
      PyList, PyArray(MkArray(<<2>>)) }
MValues == { PyFloatOf(2), PyStr(<<"a", "b", "c">>) }
SigmaValues == { PyInt(3), PyNone }
DeltaValues ==
    { PyNone, PyList, PyFloatOf(2) }
        \cup { PyArray(MkArray(<<n>>)) : n \in 0..MaxLen }
        \cup { PyArray(MkArray(<<n, 1>>)) : n \in 0..MaxLen }
BetaValues == { PyList } \cup { PyArray(MkArray(<<n>>)) : n \in 0..MaxLen }

\* A custom init: any of the five keys may be missing.
CustomValues(p) ==
    CASE p = "k" -> KValues [] p = "m" -> MValues [] p = "sigma_obs" -> SigmaValues
      [] p = "delta" -> DeltaValues [] p = "beta" -> BetaValues

CustomInits ==
    UNION { { c \in [keys -> UNION { CustomValues(p) : p \in keys }] :
                \A p \in keys : c[p] \in CustomValues(p) } :
            keys \in SUBSET {"k", "m", "sigma_obs", "delta", "beta"} }

InitSanitizeInputs ==
    /\ InitBackendIdle /\ InitDecodeIdle /\ InitSimplifyIdle
    /\ default_inits \in DefaultInits
    /\ custom_inits \in CustomInits
    /\ sanitized = SanitizeNotCalled

Sanitize ==
    /\ sanitized = SanitizeNotCalled
    /\ sanitized' = sanitize_custom_inits(default_inits, custom_inits)
    /\ UNCHANGED <<default_inits, custom_inits>>
    /\ UNCHANGED <<backendVars, decodeVars, simplifyVars>>

NextSanitize == Sanitize

SpecSanitize == InitSanitizeInputs /\ [][NextSanitize]_vars

\* C5: sanitize_custom_inits never raises: for every custom init, one with a
\* missing key, a non-numeric scalar, or a delta/beta entry that is absent or
\* has no shape included, the call returns a complete mapping for k, m,
\* sigma_obs, delta and beta.
C5_SanitizeNeverRaises ==
    sanitized # SanitizeNotCalled
        => /\ sanitized.raised = "none"
           /\ DOMAIN sanitized.value = {"k", "m", "sigma_obs", "delta", "beta"}

\* What the sanitizer is to return for parameter p, in the claim's words.
CoercesToFloat(x) == PyFloat(x).raised = "none"

ExpectedInit(default, custom, p) ==
    IF p \in {"k", "m", "sigma_obs"}
    THEN IF CoercesToFloat(PyGet(custom, p)) THEN PyFloat(PyGet(custom, p)).value
         ELSE default[p]
    ELSE IF custom[p].a.shape = default[p].a.shape THEN custom[p] ELSE default[p]

\* C6: for every custom init that holds an array for delta and for beta,
\* sanitize_custom_inits returns, for each scalar k, m, sigma_obs, the custom
\* value coerced to float when the coercion succeeds and otherwise the default
\* value; for each vector delta, beta, the custom array when its shape equals
\* the default's shape and otherwise the default array; and neither input
\* mapping is modified.
C6_SanitizedValues ==
    [][(sanitized = SanitizeNotCalled /\ sanitized' # SanitizeNotCalled
        /\ \A p \in {"delta", "beta"} :
               p \in DOMAIN custom_inits /\ custom_inits[p].t = "ndarray")
          => /\ sanitized'.raised = "none"
             /\ DOMAIN sanitized'.value = {"k", "m", "sigma_obs", "delta", "beta"}
             /\ \A p \in DOMAIN sanitized'.value :
                   sanitized'.value[p] = ExpectedInit(default_inits, custom_inits, p)
             /\ default_inits' = default_inits
             /\ custom_inits' = custom_inits]_vars

\* A returned call in which k was a numeric string (coerced), m a non-numeric
\* string (default kept), delta's shape differed from the default's (default
\* kept) and beta's non-empty shape matched (custom passed through).
C6_Witness ==
    /\ sanitized # SanitizeNotCalled
    /\ sanitized.raised = "none"
    /\ "k" \in DOMAIN custom_inits /\ custom_inits["k"].t = "str"
    /\ sanitized.value["k"] = PyFloatOf(42)
    /\ "m" \in DOMAIN custom_inits /\ custom_inits["m"].t = "str"
    /\ sanitized.value["m"] = default_inits["m"]
    /\ custom_inits["delta"].a.shape # default_inits["delta"].a.shape
    /\ sanitized.value["delta"] = default_inits["delta"]
    /\ custom_inits["beta"].a.shape = default_inits["beta"].a.shape
    /\ Len(custom_inits["beta"].a.flat) > 0
    /\ sanitized.value["beta"] = custom_inits["beta"]

-----------------------------------------------------------------------------
(* Inputs of the decoder *)

\* Column names as the engine writes them: bare, dotted, bracketed.
ColumnNameSet ==
    { <<"k">>,
      <<"d", "e", "l", "t", "a", ".", "1">>,
      <<"d", "e", "l", "t", "a", ".", "2">>,
      <<"d", "e", "l", "t", "a", "[", "1", "]">>,
      <<"b", "e", "t", "a", "[", "1", "]">>,
      <<"b", "e", "t", "a", "[", "1", "]", ".", "x">>,
      <<".", "k">> }

ColumnSeqs == UNION { [1..n -> ColumnNameSet] : n \in 0..MaxCols }

\* A buffer with one entry per column name: 1-D, or 2-D with 1..MaxRows rows.
Buffers(n) == { MkArray(<<n>>) } \cup { MkArray(<<r, n>>) : r \in 1..MaxRows }

InitDecode ==
    /\ column_names \in ColumnSeqs
    /\ data \in Buffers(Len(column_names))
    /\ decoded = NotCalled
    /\ InitBackendIdle /\ InitSimplifyIdle /\ InitSanitizeIdle

Decode ==
    /\ decoded = NotCalled
    /\ decoded' = stan_to_dict_numpy(column_names, data)
    /\ UNCHANGED <<column_names, data>>
    /\ UNCHANGED <<backendVars, simplifyVars, sanitizeVars>>

NextDecode == Decode

SpecDecode == InitDecode /\ [][NextDecode]_vars

-----------------------------------------------------------------------------
(* Properties of the decoder *)

\* The base name as the specification words it: the part before the first
\* '.' if the name contains one, else the part before the first '['.
PrefixBefore(cname, c) ==
    IF \E i \in 1..Len(cname) : cname[i] = c
    THEN LET i == CHOOSE j \in 1..Len(cname) :
                      cname[j] = c /\ \A h \in 1..Len(cname) : cname[h] = c => j <= h
         IN  [j \in 1..(i - 1) |-> cname[j]]
    ELSE cname

SpecBase(cname) ==
    IF \E i \in 1..Len(cname) : cname[i] = "." THEN PrefixBefore(cname, ".")
    ELSE PrefixBefore(cname, "[")

\* The base names form contiguous runs.
ContiguousRuns(names) ==
    \A i, j, h \in 1..Len(names) :
        (i < j /\ j < h /\ SpecBase(names[i]) = SpecBase(names[h]))
            => SpecBase(names[j]) = SpecBase(names[i])

RunStarts(names) ==
    { i \in 1..Len(names) : i = 1 \/ SpecBase(names[i]) # SpecBase(names[i - 1]) }

\* First column (1-based) of the r-th run, and the column after its last.
RunStart(names, r) ==
    CHOOSE i \in RunStarts(names) :
        Cardinality({ j \in RunStarts(names) : j < i }) = r - 1

RunEnd(names, r) ==
    IF r = Cardinality(RunStarts(names)) THEN Len(names) + 1
    ELSE RunStart(names, r + 1)

\* The columns lo .. hi-1 of buffer a, element by element.
ColumnsOf(a, lo, hi) ==
    IF Len(a.shape) = 1
    THEN [shape |-> <<hi - lo>>, flat |-> [i \in 1..(hi - lo) |-> a.flat[lo + i - 1]]]
    ELSE [shape |-> <<a.shape[1], hi - lo>>,
          flat |-> [i \in 1..(a.shape[1] * (hi - lo)) |->
                       a.flat[((i - 1) \div (hi - lo)) * a.shape[2]
                              + lo + ((i - 1) % (hi - lo))]]]

SlicedAxisSize(v) == v.shape[Len(v.shape)]

RECURSIVE SumSizes(_)
SumSizes(d) == IF d = <<>> THEN 0 ELSE SlicedAxisSize(Head(d)[2]) + SumSizes(Tail(d))

DecodesRuns(names, a, res) ==
    /\ res.raised = "none"
    /\ Len(res.output) = Cardinality(RunStarts(names))
    /\ \A r \in 1..Len(res.output) :
          /\ res.output[r][1] = SpecBase(names[RunStart(names, r)])
          /\ res.output[r][2] = ColumnsOf(a, RunStart(names, r), RunEnd(names, r))
          /\ SlicedAxisSize(res.output[r][2]) = RunEnd(names, r) - RunStart(names, r)
    /\ SumSizes(res.output) = Len(names)

\* C7: for every column-name sequence whose base names form contiguous runs,
\* the empty sequence included, stan_to_dict_numpy returns a mapping whose
\* keys, in insertion order, are the distinct base names in first-occurrence
\* order, each value being the slice of exactly that run's columns; the run
\* lengths sum to the number of columns.
C7_DecodeContiguousRuns ==
    (decoded # NotCalled /\ ContiguousRuns(column_names))
        => DecodesRuns(column_names, data, decoded)

\* The same statement for sequences of at least one column (not a claim's
\* formula: it locates the failure of C7 at the empty sequence).
DecodeNonEmptyContiguousRuns ==
    (decoded # NotCalled /\ ContiguousRuns(column_names) /\ column_names # <<>>)
        => DecodesRuns(column_names, data, decoded)

\* C8: for every column-name sequence in which a base name reappears after a
\* different base name has intervened, stan_to_dict_numpy raises the
\* RuntimeError "Found repeated column name" and returns no mapping.
C8_RepeatedNameRaises ==
    (decoded # NotCalled /\ ~ContiguousRuns(column_names))
        => /\ decoded.raised = "RuntimeError"
           /\ decoded.msg = "Found repeated column name"
           /\ decoded.output = <<>>

\* A decoded sequence of four columns whose first base name reappears third,
\* with yet another base name after it (a reappearance in the middle).
C8_Witness ==
    /\ decoded # NotCalled
    /\ Len(column_names) = 4
    /\ SpecBase(column_names[1]) = SpecBase(column_names[3])
    /\ SpecBase(column_names[2]) # SpecBase(column_names[1])
    /\ SpecBase(column_names[4]) \notin
           { SpecBase(column_names[1]), SpecBase(column_names[2]) }
    /\ decoded.raised = "RuntimeError"

-----------------------------------------------------------------------------
(* StanBackendEnum *)

\* The members of the enumeration, by name, and the class each one holds.
MemberNames == {"CMDSTANPY", "NUMPYRO"}

MemberValue(name) ==
    IF name = "CMDSTANPY" THEN "CmdStanPyBackend" ELSE "NumpyroBackend"

\* str.upper(), on the identifiers the model looks up.
Upper(name) ==
    CASE name = "cmdstanpy" -> "CMDSTANPY"
      [] name = "Numpyro" -> "NUMPYRO"
      [] OTHER -> name

LookupReturned(name, c) ==
    [NoOutcome EXCEPT !.op = "get_backend_class", !.name = name, !.class = c]

LookupRaised(name) ==
    [NoOutcome EXCEPT !.op = "get_backend_class", !.name = name,
                      !.raised = "ValueError", !.origin = "get_backend_class",
                      !.msg = <<"Unknown stan backend: ", name>>]

\* try: return StanBackendEnum[name].value
\* except KeyError as e: raise ValueError(f"Unknown stan backend: {name}") from e
get_backend_class_any_case(name) ==
    IF Upper(name) \in MemberNames THEN LookupReturned(name, MemberValue(Upper(name)))
    ELSE LookupRaised(name)
get_backend_class(name) ==
    IF name \in MemberNames THEN LookupReturned(name, MemberValue(name))
    ELSE LookupRaised(name)

\* CmdStanPyBackend.get_type / NumpyroBackend.get_type
get_type(c) == IF c = "CmdStanPyBackend" THEN "CMDSTANPY" ELSE "NUMPYRO"

-----------------------------------------------------------------------------
(* IStanBackend, CmdStanPyBackend, NumpyroBackend *)

MaxOptions == 2          \* most keyword arguments of one set_options call

NewtonThreshold == 100   \* "Newton" if data_list["T"] < 100 else "LBFGS"
DefaultIter == 10000     \* iter=int(1e4)
DefaultChains == 4       \* kwargs["chains"] = 4

\* bool(x)
PyTruthy(x) ==
    CASE x.t \in {"bool", "int", "float"} -> x.n # 0
      [] x.t = "NoneType" -> FALSE
      [] x.t = "str" -> x.s # <<>>
      [] OTHER -> TRUE

\* IStanBackend.__init__: self.newton_fallback = True
BaseNewtonFallback == PyBool(TRUE)

\* NumpyroBackend.__init__, after super().__init__(): self.newton_fallback = False
NumpyroKeepsBaseFallback == PyBool(TRUE)
NumpyroNewtonFallback == PyBool(FALSE)

\* load_model()
load_model(c) == IF c = "CmdStanPyBackend" THEN "prophet_model.bin" ELSE "None"

\* "if k == 'newton_fallback'"
OptionRecognizedAnyCase(k) == k \in {"newton_fallback", "Newton_Fallback"}
OptionRecognized(k) == k = "newton_fallback"

\* The loop of set_options over kwargs.items(), from the i-th item on.
RECURSIVE SetOptionsLoop(_, _, _)
SetOptionsLoop(kw, i, nf) ==
    IF i > Len(kw) THEN [newton_fallback |-> nf, raised |-> "none", msg |-> <<>>]
    ELSE IF OptionRecognized(kw[i][1]) THEN SetOptionsLoop(kw, i + 1, kw[i][2])
    ELSE [newton_fallback |-> nf, raised |-> "ValueError",
          msg |-> <<"Unknown option ", kw[i][1]>>]

\* algorithm="Newton" if data_list["T"] < 100 else "LBFGS"
PrimaryAlgorithmLbfgsWhenSmall(T) == IF T < NewtonThreshold THEN "LBFGS" ELSE "Newton"
PrimaryAlgorithm(T) == IF T < NewtonThreshold THEN "Newton" ELSE "LBFGS"

\* args = dict(data=..., inits=..., algorithm=..., iter=int(1e4)); args.update(kwargs)
FitArgs(T, kw) ==
    [algorithm |-> IF kw.algorithm = "" THEN PrimaryAlgorithm(T) ELSE kw.algorithm,
     iter |-> DefaultIter, T |-> T]

\* "if not self.newton_fallback or args['algorithm'] == 'Newton': raise e"
PropagatesUnlessEnabled(nf, algorithm) == ~PyTruthy(nf)
PropagatesFailure(nf, algorithm) == ~PyTruthy(nf) \/ algorithm = "Newton"

FallbackWarning == "Optimization terminated abnormally. Falling back to Newton."

\* The stan_init a fit or sampling call is given, or the sanitized custom
\* init: "if 'inits' not in kwargs and 'init' in kwargs: stan_init = ..."
StanInit(default, kw) ==
    IF ~kw.has_inits /\ kw.has_init THEN sanitize_custom_inits(default, kw.init)
    ELSE [raised |-> "none", value |-> default]

CallRaised(op, e, origin, msg) ==
    [NoOutcome EXCEPT !.op = op, !.raised = e, !.origin = origin, !.msg = msg]

CallReturned(op, v) == [NoOutcome EXCEPT !.op = op, !.value = v]

\* The engine's result object of the call-th optimize call of a fit: its
\* column_names and its optimized_params_np, whose elements tell the runs apart.
OptimizeResult(call, algorithm, cols) ==
    [kind |-> "optimize", call |-> call, algorithm |-> algorithm,
     column_names |-> cols,
     values |-> [shape |-> <<Len(cols)>>,
                 flat |-> [i \in 1..Len(cols) |-> 100 * call + i]]]

\* The end of CmdStanPyBackend.fit: decode self.stan_fit, then
\* params[par] = params[par].reshape((1, -1)) for every par.
FitReturn(sf) ==
    LET d == stan_to_dict_numpy(sf.column_names, sf.values)
    IN  IF d.raised # "none"
        THEN CallRaised("fit", d.raised, "stan_to_dict_numpy", <<d.msg>>)
        ELSE CallReturned("fit",
                 [i \in 1..Len(d.output) |->
                     <<d.output[i][1], ReshapeRow(d.output[i][2])>>])

\* The end of CmdStanPyBackend.sampling: flatten draws and chains, decode,
\* simplify.
SamplingReturn(sf) ==
    LET res == Reshape(sf.values,
                       <<sf.values.shape[1] * sf.values.shape[2], sf.values.shape[3]>>)
        d == stan_to_dict_numpy(sf.column_names, res.value)
        simple == simplify_mcmc_results(d.output)
    IN  IF d.raised # "none"
        THEN CallRaised("sampling", d.raised, "stan_to_dict_numpy", <<d.msg>>)
        ELSE IF simple.raised # "none"
        THEN CallRaised("sampling", simple.raised, "simplify_mcmc_results", <<>>)
        ELSE CallReturned("sampling", simple.output)

-----------------------------------------------------------------------------
(* Inputs of the backend's operations *)

LookupNames ==
    {"CMDSTANPY", "NUMPYRO", "cmdstanpy", "Numpyro", "PYSTAN", "CmdStanPyBackend", ""}

OptionItems ==
    { <<"newton_fallback", v>> : v \in {PyBool(TRUE), PyBool(FALSE), PyNone} }
        \cup { <<"Newton_Fallback", PyBool(FALSE)>>, <<"verbose", PyBool(TRUE)>> }

\* kwargs of set_options: items in call order, no name twice.
OptionKwargs ==
    { kw \in UNION { [1..n -> OptionItems] : n \in 0..MaxOptions } :
        \A i, j \in 1..Len(kw) : i # j => kw[i][1] # kw[j][1] }

ObservationCounts == {10, 99, 100}

AlgorithmKwargs == {"", "Newton", "LBFGS"}

ColK == <<"k">>
ColDelta1 == <<"d", "e", "l", "t", "a", "[", "1", "]">>
ColDelta2 == <<"d", "e", "l", "t", "a", "[", "2", "]">>
ColBeta1 == <<"b", "e", "t", "a", "[", "1", "]">>

\* Column names an engine run may report: well formed, or with a repeated name.
EngineColumns == { <<ColK, ColDelta1, ColDelta2, ColBeta1>>, <<ColK, ColBeta1, ColK>> }

\* What one engine call does: returns a result or raises.
EngineOutcomes ==
    { [result |-> "ok", column_names |-> c] : c \in EngineColumns }
        \cup { [result |-> e, column_names |-> <<>>] : e \in {"RuntimeError", "ValueError"} }

\* The default initial values handed to fit and sampling.
FitStanInit ==
    [k |-> PyFloatOf(10), m |-> PyFloatOf(11), sigma_obs |-> PyFloatOf(1),
     delta |-> PyArray(Zeros(<<2>>)), beta |-> PyArray(Zeros(<<1>>))]

\* kwargs["init"] and kwargs["inits"]: no init; a complete init; an init
\* without delta and beta; the latter beside an explicit inits.
InitKwargs ==
    { [has_init |-> FALSE, init |-> <<>>, has_inits |-> FALSE],
      [has_init |-> TRUE, has_inits |-> FALSE,
       init |-> [k |-> PyStr(<<"7">>), m |-> PyFloatOf(2), sigma_obs |-> PyInt(3),
                 delta |-> PyArray(MkArray(<<2>>)), beta |-> PyArray(MkArray(<<1>>))]],
      [has_init |-> TRUE, init |-> [k |-> PyFloatOf(2)], has_inits |-> FALSE],
      [has_init |-> TRUE, init |-> [k |-> PyFloatOf(2)], has_inits |-> TRUE] }

FitKwargs ==
    { [algorithm |-> a, has_init |-> i.has_init, init |-> i.init,
       has_inits |-> i.has_inits, chains |-> 0] :
        a \in AlgorithmKwargs, i \in InitKwargs }

SamplingKwargs ==
    { [algorithm |-> "", has_init |-> i.has_init, init |-> i.init,
       has_inits |-> i.has_inits, chains |-> c] :
        i \in InitKwargs, c \in {0, 1} }

SampleCounts == {3}

-----------------------------------------------------------------------------
(* The operations of the backend layer *)

Init == InitBackendIdle /\ InitDecodeIdle /\ InitSimplifyIdle /\ InitSanitizeIdle

others == <<decodeVars, simplifyVars, sanitizeVars>>

\* The locals of a call that is over.
CallLocalsReset ==
    /\ args' = NoArgs /\ kwargs' = NoKwargs /\ options' = <<>>
    /\ calls' = <<>> /\ warnings' = <<>>

\* The caller asks the registry for a class by name.
LookupByName ==
    /\ pc = Idle /\ backend = "none"
    /\ \E name \in LookupNames :
          LET r == get_backend_class(name)
          IN  /\ outcome' = r
              /\ cls' = IF r.raised = "none" THEN r.class ELSE cls
    /\ CallLocalsReset
    /\ UNCHANGED <<backend, model, stan_fit, newton_fallback, run_params, pc, others>>

\* The caller asks the registry for the class of its backend's own type.
LookupOwnType ==
    /\ pc = Idle /\ backend # "none"
    /\ LET r == get_backend_class(get_type(backend))
       IN  /\ outcome' = [r EXCEPT !.op = "get_backend_class(get_type())"]
           /\ cls' = IF r.raised = "none" THEN r.class ELSE cls
    /\ CallLocalsReset
    /\ UNCHANGED <<backend, model, stan_fit, newton_fallback, run_params, pc, others>>

\* cls(): IStanBackend.__init__ through the subclass's __init__.
Construct ==
    /\ pc = Idle /\ backend = "none" /\ cls # "none"
    /\ \E numpyro_importable \in BOOLEAN :
          IF cls = "NumpyroBackend" /\ ~numpyro_importable
          THEN /\ outcome' = CallRaised("__init__", "Exception", "__init__",
                                        <<"numpyro not found, please reinstall prophet">>)
               /\ UNCHANGED <<backend, model, stan_fit, newton_fallback>>
          ELSE /\ backend' = cls
               /\ model' = load_model(cls)
               /\ stan_fit' = NoFit
               /\ newton_fallback' = IF cls = "NumpyroBackend"
                                     THEN NumpyroNewtonFallback
                                     ELSE BaseNewtonFallback
               /\ outcome' = CallReturned("__init__", <<>>)
    /\ CallLocalsReset
    /\ UNCHANGED <<cls, run_params, pc, others>>

set_options ==
    /\ pc = Idle /\ backend # "none"
    /\ \E kw \in OptionKwargs :
          LET r == SetOptionsLoop(kw, 1, newton_fallback)
          IN  /\ newton_fallback' = r.newton_fallback
              /\ options' = kw
              /\ outcome' = IF r.raised = "none" THEN CallReturned("set_options", <<>>)
                            ELSE CallRaised("set_options", r.raised, "set_options", r.msg)
    /\ args' = NoArgs /\ kwargs' = NoKwargs /\ calls' = <<>> /\ warnings' = <<>>
    /\ UNCHANGED <<cls, backend, model, stan_fit, run_params, pc, others>>

\* CmdStanPyBackend.fit up to its first engine call.
FitBegin ==
    /\ pc = Idle /\ backend = "CmdStanPyBackend"
    /\ \E T \in ObservationCounts, kw \in FitKwargs :
          LET init == StanInit(FitStanInit, kw)
          IN  /\ kwargs' = kw
              /\ IF init.raised # "none"
                 THEN /\ outcome' = CallRaised("fit", init.raised,
                                               "sanitize_custom_inits", <<>>)
                      /\ args' = NoArgs
                      /\ pc' = Idle
                 ELSE /\ outcome' = [NoOutcome EXCEPT !.op = "fit", !.raised = "running"]
                      /\ args' = FitArgs(T, kw)
                      /\ pc' = "optimize"
    /\ options' = <<>> /\ calls' = <<>> /\ warnings' = <<>>
    /\ UNCHANGED <<cls, backend, model, stan_fit, newton_fallback, run_params, others>>

\* self.model.optimize(**args) in the try block, and the except clause.
FitOptimize ==
    /\ pc = "optimize"
    /\ \E r \in EngineOutcomes :
          /\ calls' = Append(calls, [algorithm |-> args.algorithm, result |-> r.result])
          /\ CASE r.result = "ok" ->
                    /\ stan_fit' = OptimizeResult(1, args.algorithm, r.column_names)
                    /\ outcome' = FitReturn(stan_fit')
                    /\ pc' = Idle
                    /\ UNCHANGED <<args, warnings>>
               [] r.result = "RuntimeError" ->
                    IF PropagatesFailure(newton_fallback, args.algorithm)
                    THEN /\ outcome' = CallRaised("fit", r.result, "optimize call 1", <<>>)
                         /\ pc' = Idle
                         /\ UNCHANGED <<args, warnings, stan_fit>>
                    ELSE /\ warnings' = Append(warnings, FallbackWarning)
                         /\ args' = [args EXCEPT !.algorithm = "Newton"]
                         /\ pc' = "retry"
                         /\ UNCHANGED <<outcome, stan_fit>>
               [] OTHER ->
                    /\ outcome' = CallRaised("fit", r.result, "optimize call 1", <<>>)
                    /\ pc' = Idle
                    /\ UNCHANGED <<args, warnings, stan_fit>>
    /\ UNCHANGED <<cls, backend, model, newton_fallback, run_params, kwargs, options, others>>

\* self.model.optimize(**args) in the except clause.
FitRetry ==
    /\ pc = "retry"
    /\ \E r \in EngineOutcomes :
          /\ calls' = Append(calls, [algorithm |-> args.algorithm, result |-> r.result])
          /\ IF r.result = "ok"
             THEN /\ stan_fit' = OptimizeResult(2, args.algorithm, r.column_names)
                  /\ outcome' = FitReturn(stan_fit')
             ELSE /\ outcome' = CallRaised("fit", r.result, "optimize call 2", <<>>)
                  /\ UNCHANGED stan_fit
    /\ pc' = Idle
    /\ UNCHANGED <<cls, backend, model, newton_fallback, run_params, args, kwargs,
                   options, warnings, others>>

\* CmdStanPyBackend.sampling
Sampling ==
    /\ pc = Idle /\ backend = "CmdStanPyBackend"
    /\ \E samples \in SampleCounts, kw \in SamplingKwargs, r \in EngineOutcomes :
          LET init == StanInit(FitStanInit, kw)
              chains == IF kw.chains = 0 THEN DefaultChains ELSE kw.chains
              iter_half == samples \div 2
              sf == [kind |-> "sample", call |-> 1, algorithm |-> "",
                     column_names |-> r.column_names,
                     values |-> MkArray(<<iter_half, chains, Len(r.column_names)>>)]
          IN  /\ kwargs' = kw
              /\ IF init.raised # "none"
                 THEN /\ outcome' = CallRaised("sampling", init.raised,
                                               "sanitize_custom_inits", <<>>)
                      /\ UNCHANGED stan_fit
                 ELSE IF r.result # "ok"
                 THEN /\ outcome' = CallRaised("sampling", r.result, "sample", <<>>)
                      /\ UNCHANGED stan_fit
                 ELSE /\ stan_fit' = sf
                      /\ outcome' = SamplingReturn(sf)
    /\ args' = NoArgs /\ options' = <<>> /\ calls' = <<>> /\ warnings' = <<>>
    /\ UNCHANGED <<cls, backend, model, newton_fallback, run_params, pc, others>>

\* The course NumpyroBackend.fit and NumpyroBackend.sampling share: sanitize
\* a custom init, run the engine, keep its result. What the engine computes
\* (svi.run, mcmc.run) lies outside this file: a run returns or raises.
NumpyroRun(op, kw, result) ==
    LET init == StanInit(FitStanInit, kw)
    IN  /\ kwargs' = kw
        /\ IF init.raised # "none"
           THEN /\ outcome' = CallRaised(op, init.raised, "sanitize_custom_inits", <<>>)
                /\ UNCHANGED <<stan_fit, run_params, model>>
           ELSE IF result # "ok"
           THEN /\ outcome' = CallRaised(op, result, "engine", <<>>)
                /\ UNCHANGED <<stan_fit, run_params, model>>
           ELSE /\ stan_fit' = [NoFit EXCEPT !.kind = IF op = "fit" THEN "svi" ELSE "mcmc",
                                             !.call = 1]
                /\ run_params' = op
                /\ model' = "get_model(trend_indicator)"
                /\ outcome' = CallReturned(op, <<>>)

NumpyroFit ==
    /\ pc = Idle /\ backend = "NumpyroBackend"
    /\ \E kw \in FitKwargs, result \in {"ok", "RuntimeError"} :
          NumpyroRun("fit", kw, result)
    /\ args' = NoArgs /\ options' = <<>> /\ calls' = <<>> /\ warnings' = <<>>
    /\ UNCHANGED <<cls, backend, newton_fallback, pc, others>>

NumpyroSampling ==
    /\ pc = Idle /\ backend = "NumpyroBackend"
    /\ \E kw \in SamplingKwargs, result \in {"ok", "RuntimeError"} :
          NumpyroRun("sampling", kw, result)
    /\ args' = NoArgs /\ options' = <<>> /\ calls' = <<>> /\ warnings' = <<>>
    /\ UNCHANGED <<cls, backend, newton_fallback, pc, others>>

Next ==
    \/ LookupByName
    \/ LookupOwnType
    \/ Construct
    \/ set_options
    \/ FitBegin
    \/ FitOptimize
    \/ FitRetry
    \/ Sampling
    \/ NumpyroFit
    \/ NumpyroSampling

Spec == Init /\ [][Next]_vars

-----------------------------------------------------------------------------
(* Properties of CmdStanPyBackend.fit *)

FitIsOver == pc = Idle /\ outcome.op = "fit" /\ Len(calls) >= 1

\* C1: in CmdStanPyBackend.fit, if the first engine optimize call raises a
\* RuntimeError, the failure propagates with no second call when
\* newton_fallback is disabled or the first call's algorithm was Newton;
\* otherwise exactly one further optimize call is made, with algorithm
\* Newton, after a warning is logged, and a failure of that retry
\* propagates. No fit makes more than two engine optimize calls.
C1_FallbackRetry ==
    /\ Len(calls) <= 2
    /\ pc = "retry" =>
          /\ Len(calls) = 1
          /\ warnings = <<"Optimization terminated abnormally. Falling back to Newton.">>
    /\ (FitIsOver /\ calls[1].result = "RuntimeError") =>
          IF ~PyTruthy(newton_fallback) \/ calls[1].algorithm = "Newton"
          THEN /\ Len(calls) = 1
               /\ outcome.raised = "RuntimeError"
               /\ outcome.origin = "optimize call 1"
               /\ warnings = <<>>
          ELSE /\ Len(calls) = 2
               /\ calls[2].algorithm = "Newton"
               /\ warnings = <<"Optimization terminated abnormally. Falling back to Newton.">>
               /\ calls[2].result # "ok" =>
                     /\ outcome.raised = calls[2].result
                     /\ outcome.origin = "optimize call 2"
    /\ (FitIsOver /\ calls[1].result # "RuntimeError") => Len(calls) = 1

\* A fit whose first call and whose Newton retry both raised a RuntimeError.
C1_Witness ==
    /\ FitIsOver
    /\ Len(calls) = 2
    /\ calls[1].result = "RuntimeError" /\ calls[1].algorithm = "LBFGS"
    /\ calls[2].result = "RuntimeError" /\ calls[2].algorithm = "Newton"
    /\ outcome.raised = "RuntimeError" /\ outcome.origin = "optimize call 2"

\* A small observation count and no algorithm among the keyword arguments.
SmallCount == args.T < 100 /\ kwargs.algorithm = ""

\* Every element of the returned mapping comes from the engine's call-th run.
ReturnsRun(call) ==
    /\ outcome.raised = "none"
    /\ outcome.value # <<>>
    /\ \A i \in 1..Len(outcome.value) :
          \A j \in 1..Len(outcome.value[i][2].flat) :
              outcome.value[i][2].flat[j] \div 100 = call

RetryReturnsFallbackRun ==
    ~(FitIsOver /\ Len(calls) = 2 /\ calls[2].result = "ok" /\ ReturnsRun(2))

-----------------------------------------------------------------------------
(* Properties of NumpyroBackend *)

\* C3 as claimed: in every state after a NumpyroBackend is constructed,
\* whatever set_options, fit and sampling calls were made, its
\* newton_fallback flag is false.
C3_FallbackAlwaysFalse ==
    backend = "NumpyroBackend" => newton_fallback = PyBool(FALSE)

\* C3 as amended: the flag of a NumpyroBackend is false after construction;
\* fit and sampling never change it, make no fallback retry and log no
\* warning, whatever its value; it changes only in a set_options call that
\* is given newton_fallback, which sets it to the value given.
C3_FallbackOnlySetByOptions ==
    [][backend' = "NumpyroBackend" =>
         /\ backend = "none" => newton_fallback' = PyBool(FALSE)
         /\ (backend # "none" /\ outcome'.op # "set_options")
               => newton_fallback' = newton_fallback
         /\ (outcome'.op = "set_options" /\ newton_fallback' # newton_fallback)
               => \E i \in 1..Len(options') :
                      options'[i] = <<"newton_fallback", newton_fallback'>>
         /\ pc' = Idle /\ calls' = <<>> /\ warnings' = <<>>]_vars

\* A NumpyroBackend whose flag set_options has set to True and whose fit then
\* failed in the engine: the failure has propagated without a retry.
C3_Witness ==
    /\ backend = "NumpyroBackend"
    /\ newton_fallback = PyBool(TRUE)
    /\ outcome.op = "fit" /\ outcome.raised = "RuntimeError"
    /\ calls = <<>> /\ warnings = <<>>

-----------------------------------------------------------------------------
(* Properties of set_options and of the registry *)

\* C9: set_options recognizes exactly the option name newton_fallback: a call
\* with only newton_fallback sets the flag to the value given and changes
\* nothing else of the backend; a call with any other option name raises a
\* ValueError naming the option.
C9_SetOptions ==
    [][outcome'.op = "set_options" =>
         /\ (Len(options') = 1 /\ options'[1][1] = "newton_fallback") =>
               /\ outcome'.raised = "none"
               /\ newton_fallback' = options'[1][2]
               /\ model' = model /\ stan_fit' = stan_fit
               /\ backend' = backend /\ run_params' = run_params
         /\ (\E i \in 1..Len(options') : options'[i][1] # "newton_fallback") =>
               /\ outcome'.raised = "ValueError"
               /\ outcome'.msg[1] = "Unknown option "
               /\ \E i \in 1..Len(options') :
                     /\ options'[i][1] # "newton_fallback"
                     /\ outcome'.msg[2] = options'[i][1]]_vars

\* set_options(newton_fallback=False) has returned on a CmdStanPyBackend that
\* holds the result of an earlier fit.
C9_Witness ==
    /\ outcome.op = "set_options" /\ outcome.raised = "none"
    /\ options = << <<"newton_fallback", PyBool(FALSE)>> >>
    /\ newton_fallback = PyBool(FALSE)
    /\ backend = "CmdStanPyBackend"
    /\ stan_fit.kind = "optimize"

IsLookup == outcome.op \in {"get_backend_class", "get_backend_class(get_type())"}

\* C10: get_backend_class with a recognized identifier (CMDSTANPY, NUMPYRO,
\* matched case-exactly) returns the matching class, and for each backend
\* get_backend_class(get_type()) returns that backend's class; with any other
\* identifier it raises a ValueError whose message names the identifier.
C10_RegistryLookup ==
    /\ IsLookup =>
          CASE outcome.name = "CMDSTANPY" ->
                  outcome.raised = "none" /\ outcome.class = "CmdStanPyBackend"
            [] outcome.name = "NUMPYRO" ->
                  outcome.raised = "none" /\ outcome.class = "NumpyroBackend"
            [] OTHER ->
                  /\ outcome.raised = "ValueError"
                  /\ outcome.msg = <<"Unknown stan backend: ", outcome.name>>
    /\ outcome.op = "get_backend_class(get_type())" =>
          outcome.raised = "none" /\ outcome.class = backend

\* A constructed NumpyroBackend whose own type the registry has resolved back
\* to its class.
C10_Witness ==
    /\ outcome.op = "get_backend_class(get_type())"
    /\ backend = "NumpyroBackend"
    /\ outcome.name = "NUMPYRO"
    /\ outcome.class = "NumpyroBackend"

====
